---- MODULE Spec2Model ----
(***************************************************************************)
(* State-machine model of src/src/main.cpp (esp-roomba-mqtt): the sensor   *)
(* stream decoder, the cleaning/docked estimator, the command translator   *)
(* and the loop() scheduler with its three software timers.                *)
(*                                                                         *)
(* One pass of loop() is split at its five top-level statements; pc names  *)
(* the statement the controller will run next.  Time is millis() in ms.    *)
(* Blocking delay() calls are accounted to the time that passes between    *)
(* two passes of loop().  The timers are 32-bit; the model stops long      *)
(* before millis() wraps, so no width is applied to them.                  *)
(***************************************************************************)
EXTENDS Integers, Sequences, FiniteSets, TLC

(***************************************************************************)
(* Bounds of the model.                                                    *)
(***************************************************************************)
\* Largest value of millis() the scheduler model (Spec) lets the clock reach.
MaxClock == 60002
\* Largest value of millis() in the command/decoder model (SpecCommands).
MaxCommandClock == 50003
\* Largest value of millis() in the long-horizon model (SpecAnnounce).
MaxAnnounceClock == 1260042
\* The decoder model runs one pass of loop().
MaxDecodeClock == 10001
\* Number of leading bytes of roombaPacket[100] the model keeps.
BufView == 8

(***************************************************************************)
(* Program constants.                                                      *)
(***************************************************************************)
ReconnectInterval == 30000
WakeupInterval == 50000
StateMsgInterval == 10000
StaleWindow == 30000
ConfigLoopMax == 19
LowVoltage == 10800
CleaningCurrent == -400
DockedCurrent == -50

Sensors7to26 == 0
Sensors7to16 == 1
SensorBumpsAndWheelDrops == 7
SensorVirtualWall == 13
SensorDistance == 19
SensorChargingState == 21
SensorVoltage == 22
SensorCurrent == 23
SensorBatteryCharge == 25
SensorBatteryCapacity == 26
SensorUnknown128 == 128

(***************************************************************************)
(* Build configuration (config.h is not part of the sources; the values    *)
(* are the ones the specification describes: low-power cutoff active and   *)
(* the dock-aware keep-awake variant).                                     *)
(***************************************************************************)
ENABLE_ADC_SLEEP == TRUE
ROOMBA_650_SLEEP_FIX == TRUE

(***************************************************************************)
(* Inputs.                                                                 *)
(***************************************************************************)
\* The command vocabulary of performCommand.
Vocabulary ==
  {"turn_on", "turn_off", "start", "pause", "stop", "clean_spot", "locate",
   "return_to_base"}
\* Tokens the message bus delivers: the vocabulary and two tokens outside it.
Tokens == Vocabulary \cup {"bogus", "quit"}
\* Commands typed on the telnet console (debugCallback).
DebugTokens == {"turn_on", "turn_off", "stop", "quit", "wake", "stream", "bogus"}
\* The few tokens the scheduler model delivers, on the bus and the console.
SchedTokens == {"turn_on", "bogus"}
SchedDebugTokens == {"turn_on"}
\* Time that passes between two passes of loop(), in ms.
TimeSteps == {10000, 10001, 50001}
\* Time between two passes in the command/decoder model.
CommandTimeSteps == {10001, 30001}
\* Time between two passes in the long-horizon model.
AnnounceTimeSteps == {30001}
\* Supply voltages readADC() may return, in mV.
SupplyMilliVolts == {10799, 10800}
\* Packets pollSensors() may hand over (the bytes after the stream header).
\* 254,111 = -401   254,112 = -400   255,206 = -50   255,207 = -49
Packets ==
  { <<23, 254, 111, 26, 10, 40>>,
    <<23, 254, 112, 26, 10, 40>>,
    <<23, 255, 206, 25, 255, 255>>,
    <<23, 255, 207, 21, 2, 7>>,
    <<19, 255, 255, 22, 64, 16>>,
    <<23, 254, 111, 99, 0, 0>>,
    <<99, 23, 254, 111, 0, 0>>,
    <<128, 0, 23, 254>> }
\* Packets of the scheduler model: cleaning with a capacity, docked without
\* one, and one with an unknown ID.
SchedPackets ==
  { <<23, 254, 111, 26, 10, 40>>,
    <<23, 255, 207, 25, 0, 100>>,
    <<23, 254, 111, 99, 0, 0>> }
\* Packets of the long-horizon model.
AnnouncePackets == { <<23, 255, 207, 26, 10, 40>> }

(***************************************************************************)
(* RoombaState and the sensor stream decoder.                              *)
(***************************************************************************)
\* RoombaState roombaState = {}: every field zero / false.
ZeroState ==
  [distance |-> 0, chargingState |-> 0, voltage |-> 0, current |-> 0,
   charge |-> 0, capacity |-> 0, cleaning |-> FALSE, docked |-> FALSE,
   timestamp |-> 0, sent |-> FALSE]

\* An int16_t field that kept the value as an unsigned number.
ToInt16_Unsigned(v) == v

\* Assignment of an int in 0..65535 to an int16_t field.
ToInt16(v) == IF v >= 32768 THEN v - 65536 ELSE v

\* Assignment of an int in 0..65535 to a uint16_t field.
ToUint16(v) == v % 65536

\* packet[i] of the C array (0-based) in the model's 1-based sequence.
At(packet, i) == packet[i + 1]

\* packet[i+1] * 256 + packet[i+2]
Word(packet, i) == At(packet, i + 1) * 256 + At(packet, i + 2)

\* The while loop of parseRoombaStateFromStreamPacket, from scan position i.
RECURSIVE ParseLoop(_, _, _, _)
ParseLoop(packet, length, i, state) ==
  IF ~(i < length) THEN [ok |-> TRUE, state |-> state]
  ELSE LET id == At(packet, i) IN
    CASE id = Sensors7to26 -> ParseLoop(packet, length, i + 27, state)
      [] id = Sensors7to16 -> ParseLoop(packet, length, i + 11, state)
      [] id = SensorVirtualWall -> ParseLoop(packet, length, i + 2, state)
      [] id = SensorDistance ->
           ParseLoop(packet, length, i + 3,
                     [state EXCEPT !.distance = ToInt16(Word(packet, i))])
      [] id = SensorChargingState ->
           ParseLoop(packet, length, i + 2,
                     [state EXCEPT !.chargingState = At(packet, i + 1)])
      [] id = SensorVoltage ->
           ParseLoop(packet, length, i + 3,
                     [state EXCEPT !.voltage = ToUint16(Word(packet, i))])
      [] id = SensorCurrent ->
           ParseLoop(packet, length, i + 3,
                     [state EXCEPT !.current = ToInt16(Word(packet, i))])
      [] id = SensorBatteryCharge ->
           ParseLoop(packet, length, i + 3,
                     [state EXCEPT !.charge = ToInt16(Word(packet, i))])
      [] id = SensorBatteryCapacity ->
           ParseLoop(packet, length, i + 3,
                     [state EXCEPT !.capacity = ToUint16(Word(packet, i))])
      [] id = SensorBumpsAndWheelDrops -> ParseLoop(packet, length, i + 2, state)
      [] id = SensorUnknown128 -> ParseLoop(packet, length, i + 2, state)
      [] OTHER -> [ok |-> FALSE, state |-> state]

\* The positions of packet[] that the while loop reads from scan position i
\* on: packet[i] for the ID, and packet[i+1], packet[i+2] for the values it
\* decodes.  Nothing in the loop compares i+1 or i+2 with length.
RECURSIVE ReadPositions(_, _, _)
ReadPositions(packet, length, i) ==
  IF ~(i < length) THEN {}
  ELSE LET id == At(packet, i) IN
    CASE id = Sensors7to26 -> {i} \cup ReadPositions(packet, length, i + 27)
      [] id = Sensors7to16 -> {i} \cup ReadPositions(packet, length, i + 11)
      [] id \in {SensorVirtualWall, SensorBumpsAndWheelDrops,
                 SensorUnknown128} ->
           {i} \cup ReadPositions(packet, length, i + 2)
      [] id = SensorChargingState ->
           {i, i + 1} \cup ReadPositions(packet, length, i + 2)
      [] id \in {SensorDistance, SensorVoltage, SensorCurrent,
                 SensorBatteryCharge, SensorBatteryCapacity} ->
           {i, i + 1, i + 2} \cup ReadPositions(packet, length, i + 3)
      [] OTHER -> {i}

\* The parser without its first statement, state->timestamp = millis().
parseRoombaStateFromStreamPacket_NoStamp(packet, length, state, millis) ==
  ParseLoop(packet, length, 0, state)

\* parseRoombaStateFromStreamPacket(packet, length, &state) called at time
\* millis: the return value and *state after the call.
parseRoombaStateFromStreamPacket(packet, length, state, millis) ==
  ParseLoop(packet, length, 0, [state EXCEPT !.timestamp = millis])

\* Estimate with the docked comparison turned round, tested on its own.
Estimate_DockedBelow(state) ==
  LET s0 == [state EXCEPT !.cleaning = FALSE, !.docked = FALSE]
      s1 == IF s0.current < CleaningCurrent
            THEN [s0 EXCEPT !.cleaning = TRUE] ELSE s0
  IN IF s1.current < DockedCurrent THEN [s1 EXCEPT !.docked = TRUE] ELSE s1

\* Estimate with inclusive thresholds.
Estimate_Inclusive(state) ==
  LET s0 == [state EXCEPT !.cleaning = FALSE, !.docked = FALSE] IN
  IF s0.current <= CleaningCurrent THEN [s0 EXCEPT !.cleaning = TRUE]
  ELSE IF s0.current >= DockedCurrent THEN [s0 EXCEPT !.docked = TRUE]
  ELSE s0

\* The derived-state estimator at the end of readSensorPacket.
Estimate(state) ==
  LET s0 == [state EXCEPT !.cleaning = FALSE, !.docked = FALSE] IN
  IF s0.current < CleaningCurrent THEN [s0 EXCEPT !.cleaning = TRUE]
  ELSE IF s0.current > DockedCurrent THEN [s0 EXCEPT !.docked = TRUE]
  ELSE s0

\* readSensorPacket decoding straight into the shared state.
readSensorPacket_InPlace(shared, packet, length, millis) ==
  LET r == parseRoombaStateFromStreamPacket(packet, length, shared, millis) IN
  IF r.ok THEN Estimate(r.state) ELSE r.state

\* readSensorPacket once pollSensors has returned true with the buffer and
\* length given: the new value of the shared roombaState.
readSensorPacket(shared, packet, length, millis) ==
  LET r == parseRoombaStateFromStreamPacket(packet, length, ZeroState, millis) IN
  IF r.ok THEN Estimate(r.state) ELSE shared

\* pollSensors writes the received bytes over the start of roombaPacket; the
\* bytes behind them keep what an earlier packet left there.
Overlay(buffer, bytes) ==
  [k \in 1..Len(buffer) |-> IF k <= Len(bytes) THEN bytes[k] ELSE buffer[k]]

(***************************************************************************)
(* Device actions and the command translator.  A device action is a pair   *)
(* <<channel, what>>: the BRC wake line, a raw Serial.write, or a call of  *)
(* the Roomba library.                                                     *)
(***************************************************************************)
\* wakeup() without the pulse on the BRC line.
wakeup_NoPulse == << <<"serial", "128">> >>

\* wakeup(): BRC low for 200 ms, released for 200 ms, then the Start opcode.
wakeup == << <<"brc", "low">>, <<"brc", "input">>, <<"serial", "128">> >>

wakeOnDock ==
  IF ROOMBA_650_SLEEP_FIX
  THEN wakeup \o << <<"serial", "135">>, <<"serial", "143">> >>
  ELSE wakeup

locateSequence ==
  << <<"roomba", "safeMode">>, <<"roomba", "playSong0">>,
     <<"roomba", "playSong1">>, <<"roomba", "playSong2">>,
     <<"roomba", "playSong3">> >>

\* The final else returning before the device was woken.
rejectCommand_NoWake(state) == [ok |-> FALSE, state |-> state, out |-> <<>>]

\* The final else taken for a start command.
rejectCommand_StartsAnyway(state) ==
  [ok |-> FALSE, state |-> [state EXCEPT !.cleaning = TRUE],
   out |-> wakeup \o << <<"roomba", "cover">> >>]

\* The final else of performCommand: after the wake-up, return false.
rejectCommand(state) == [ok |-> FALSE, state |-> state, out |-> wakeup]

\* The stop branch toggling whether the device is cleaning or not.
stopActions_Always(state) == wakeup \o << <<"roomba", "cover">> >>

\* The device actions of performCommand("stop"): after the wake-up, the cover
\* toggle only if roombaState.cleaning.
stopActions(state) ==
  IF state.cleaning THEN wakeup \o << <<"roomba", "cover">> >> ELSE wakeup

\* performCommand(cmd) on shared state `state`: the return value, the shared
\* state afterwards and the device actions issued, in order.
performCommand(cmd, state) ==
  CASE cmd = "turn_on" ->
         [ok |-> TRUE, state |-> [state EXCEPT !.cleaning = TRUE],
          out |-> wakeup \o << <<"roomba", "cover">> >>]
    [] cmd = "turn_off" ->
         [ok |-> TRUE, state |-> [state EXCEPT !.cleaning = FALSE],
          out |-> wakeup \o << <<"roomba", "power">> >>]
    [] cmd = "start" \/ cmd = "pause" ->
         [ok |-> TRUE, state |-> state,
          out |-> wakeup \o << <<"roomba", "cover">> >>]
    [] cmd = "stop" ->
         [ok |-> TRUE, state |-> state, out |-> stopActions(state)]
    [] cmd = "clean_spot" ->
         [ok |-> TRUE, state |-> [state EXCEPT !.cleaning = TRUE],
          out |-> wakeup \o << <<"roomba", "spot">> >>]
    [] cmd = "locate" ->
         [ok |-> TRUE, state |-> state, out |-> wakeup \o locateSequence]
    [] cmd = "return_to_base" ->
         [ok |-> TRUE, state |-> [state EXCEPT !.cleaning = TRUE],
          out |-> wakeup \o << <<"roomba", "dock">> >>]
    [] OTHER -> rejectCommand(state)

\* What one call of performCommand adds to the log of the pass: the call,
\* its device actions, its return value.
CommandEvents(cmd, r) ==
  << <<"performCommand", cmd>> >> \o r.out
     \o << <<"return", IF r.ok THEN "true" ELSE "false">> >>

\* debugCallback for a console command: performCommand first, then the
\* console-only commands.  (Of those, only quit, wake and stream are ever
\* drawn as inputs.)
debugCallback(cmd, state) ==
  LET r == performCommand(cmd, state) IN
  [state |-> r.state,
   events |-> << <<"debugCallback", cmd>> >> \o CommandEvents(cmd, r) \o
     (CASE r.ok -> <<>>
        [] ~r.ok /\ cmd = "quit" -> << <<"serial", "173">> >>
        [] ~r.ok /\ cmd = "wake" -> wakeup
        [] ~r.ok /\ cmd = "stream" -> << <<"roomba", "stream">> >>
        [] OTHER -> <<>>)]

\* mqttCallback for a message on the command topic.
mqttCallback(cmd, state) ==
  LET r == performCommand(cmd, state) IN
  [state |-> r.state,
   events |-> << <<"mqttCallback", cmd>> >> \o CommandEvents(cmd, r)]

(***************************************************************************)
(* Publishers and the low-power cutoff.                                    *)
(***************************************************************************)
\* reconnect(): mqttClient.connect() succeeds or not.
reconnect(success) ==
  << <<"reconnect", IF success THEN "connected" ELSE "failed">> >>

\* sendConfig(): publishes the descriptor unless the link is down.
sendConfig(link) ==
  << <<"sendConfig", IF link THEN "published" ELSE "skipped">> >>

\* sendStatus() without its test of mqttClient.connected().
SendStatusOutcomes_NoLinkTest(state, link) ==
  IF state.capacity = 0 THEN {"published", "fault"} ELSE {"published"}

\* The ways one call of sendStatus() can end.  With the link up it divides
\* charge * 100 by capacity: for capacity = 0 the division is undefined, and
\* the build either traps (this run of the program ends) or goes on with
\* some value.
SendStatusOutcomes(state, link) ==
  IF ~link THEN {"skipped"}
  ELSE IF state.capacity = 0 THEN {"published", "fault"}
  ELSE {"published"}

\* sleepIfNecessary() with the cutoff taken at 10800 mV inclusive.
sleepIfNecessary_AtThreshold(mV, link) ==
  IF ENABLE_ADC_SLEEP /\ mV <= LowVoltage
  THEN [sleep |-> TRUE,
        events |-> << <<"sleepIfNecessary", ToString(mV)>> >> \o
                   (IF link THEN << <<"lowPowerStatus", "published">> >>
                    ELSE <<>>) \o << <<"deepSleep", "600s">> >>]
  ELSE [sleep |-> FALSE,
        events |-> << <<"sleepIfNecessary", ToString(mV)>> >>]

\* sleepIfNecessary() for a supply reading of mV: whether the controller goes
\* to deep sleep, and what it publishes first.  Its first event carries
\* the reading; lowPowerStatus is the synthetic status message
\* (battery_level 0, cleaning, docked and charging false).
sleepIfNecessary(mV, link) ==
  IF ENABLE_ADC_SLEEP /\ mV < LowVoltage
  THEN [sleep |-> TRUE,
        events |-> << <<"sleepIfNecessary", ToString(mV)>> >> \o
                   (IF link THEN << <<"lowPowerStatus", "published">> >>
                    ELSE <<>>) \o << <<"deepSleep", "600s">> >>]
  ELSE [sleep |-> FALSE,
        events |-> << <<"sleepIfNecessary", ToString(mV)>> >>]

\* The keep-awake pulse of loop() for the shared state given.
keepAwake(state) ==
  IF ~state.cleaning
  THEN (IF state.docked
        THEN << <<"keepAwake", "wakeOnDock">> >> \o wakeOnDock
        ELSE << <<"keepAwake", "wakeup">> >> \o wakeup)
  ELSE << <<"keepAwake", "wakeup">> >> \o wakeup

\* The publish test without the sent flag.
StaleOrSent_AgeOnly(state, t) == t - state.timestamp > StaleWindow

\* The test loop() makes before publishing: re-request the stream instead.
StaleOrSent(state, t) == t - state.timestamp > StaleWindow \/ state.sent


(***************************************************************************)
(* State.                                                                  *)
(***************************************************************************)
VARIABLES
  pc,               \* boot, idle, connect, wake, publish, read, pump, sleep,
                    \* fault
  clock,            \* millis()
  now,              \* loop()'s local now
  roombaState,      \* the shared RoombaState
  roombaPacket,     \* the first BufView bytes of roombaPacket[100]
  packetLength,     \* readSensorPacket's packetLength at the last packet
  OTAStarted,
  connected,        \* mqttClient.connected()
  lastStateMsgTime,
  lastWakeupTime,
  lastConnectTime,
  configLoop,
  stepLog,          \* history: what the last statement of loop() did
  tickSteps,        \* history: the operations of the current pass, in order
  hist              \* history: counters the properties read

vars ==
  <<pc, clock, now, roombaState, roombaPacket, packetLength, OTAStarted,
    connected, lastStateMsgTime, lastWakeupTime, lastConnectTime, configLoop,
    stepLog, tickSteps, hist>>

\* History at power-on: sendStatus calls since the last successful decode,
\* whether a command has set cleaning since then, the number of
\* reconnect-interval passes that found the link up, and the command that
\* performCommand ran in the statement before the last one.
ZeroHist ==
  [pubsSinceDecode |-> 0, cmdSetCleaning |-> FALSE, upTicks |-> 0,
   prevCmd |-> "none"]

\* The token of the performCommand call in the log `log`, if there is one.
LastCommand(log) ==
  IF \E i \in 1..Len(log) : log[i][1] = "performCommand"
  THEN log[CHOOSE i \in 1..Len(log) : log[i][1] = "performCommand"][2]
  ELSE "none"

\* The history `h` once the statement that follows the last one has run.
Carry(h) == [h EXCEPT !.prevCmd = LastCommand(stepLog)]

\* The globals as their initialisers leave them, before setup() runs.
Init ==
  /\ pc = "boot"
  /\ clock = 0
  /\ now = 0
  /\ roombaState = ZeroState
  /\ roombaPacket = [k \in 1..BufView |-> 0]
  /\ packetLength = 0
  /\ OTAStarted = FALSE
  /\ connected = FALSE
  /\ lastStateMsgTime = 0
  /\ lastWakeupTime = 0
  /\ lastConnectTime = 0
  /\ configLoop = 0
  /\ stepLog = <<>>
  /\ tickSteps = <<>>
  /\ hist = ZeroHist

\* loop() with readSensorPacket() moved in front of the publish block.
After_ReadFirst(stmt) ==
  CASE stmt = "connect" -> "wake"
    [] stmt = "wake" -> "read"
    [] stmt = "read" -> "publish"
    [] stmt = "publish" -> "pump"
    [] stmt = "pump" -> "idle"

\* The statement of loop() that follows statement `stmt` in the source.
After(stmt) ==
  CASE stmt = "connect" -> "wake"
    [] stmt = "wake" -> "publish"
    [] stmt = "publish" -> "read"
    [] stmt = "read" -> "pump"
    [] stmt = "pump" -> "idle"

\* Commands that write cleaning = true.
SetsCleaning(cmd) == cmd \in {"turn_on", "clean_spot", "return_to_base"}

(***************************************************************************)
(* setup(): the low-power check, then the network and device bring-up.     *)
(***************************************************************************)
SetupOn(supply) ==
  /\ pc = "boot"
  /\ \E mV \in supply :
       LET s == sleepIfNecessary(mV, connected) IN
       /\ pc' = IF s.sleep THEN "sleep" ELSE "idle"
       /\ stepLog' = s.events \o
            (IF s.sleep THEN <<>> ELSE << <<"roomba", "stream">> >>)
  /\ tickSteps' = <<>>
  /\ hist' = Carry(hist)
  /\ UNCHANGED <<clock, now, roombaState, roombaPacket, packetLength,
                 OTAStarted, connected, lastStateMsgTime, lastWakeupTime,
                 lastConnectTime, configLoop>>

(***************************************************************************)
(* loop(), first part: ArduinoOTA.handle() (an OTA session may start),     *)
(* Debug.handle() (a console command may run), the OTAStarted test and     *)
(* now = millis().  Between two passes time passes and the link may drop.  *)
(***************************************************************************)
\* loop() going on to the scheduler during an OTA session.
SkipsScheduler_Never(started) == FALSE

\* if (OTAStarted) return;
SkipsScheduler(started) == started

LoopStartOn(steps, maxClock, console, otaRequests) ==
  /\ pc = "idle"
  /\ \E dt \in steps, drop \in BOOLEAN, ota \in otaRequests,
        dbg \in {"none"} \cup console :
       LET d == IF dbg = "none" THEN [state |-> roombaState, events |-> <<>>]
                ELSE debugCallback(dbg, roombaState)
           otaNow == ota /\ ~OTAStarted
       IN
       /\ clock + dt <= maxClock
       /\ clock' = clock + dt
       /\ connected' = (connected /\ ~drop)
       /\ OTAStarted' = (OTAStarted \/ otaNow)
       /\ roombaState' = d.state
       /\ stepLog' =
            (IF otaNow
             THEN << <<"onOTAStart", "streamPause">> >> ELSE <<>>) \o d.events
       /\ tickSteps' = IF dbg = "none" THEN <<>> ELSE <<"debugCallback">>
       /\ hist' = Carry([hist EXCEPT !.cmdSetCleaning =
                           @ \/ (dbg # "none" /\ SetsCleaning(dbg))])
       /\ IF SkipsScheduler(OTAStarted')
          THEN pc' = "idle" /\ now' = now
          ELSE pc' = "connect" /\ now' = clock'
  /\ UNCHANGED <<roombaPacket, packetLength, lastStateMsgTime,
                 lastWakeupTime, lastConnectTime, configLoop>>

(***************************************************************************)
(* loop(): the reconnect / descriptor check.                               *)
(***************************************************************************)
\* The descriptor test against 20 instead of 19.
ConfigDue_OneLate(count) == count = ConfigLoopMax + 1

\* configLoop == 19
ConfigDue(count) == count = ConfigLoopMax

ConnectStep ==
  /\ pc = "connect"
  /\ pc' = After("connect")
  /\ IF now - lastConnectTime > ReconnectInterval
     THEN /\ lastConnectTime' = now
          /\ tickSteps' = Append(tickSteps, "connect")
          /\ IF ~connected
             THEN \E success \in BOOLEAN :
                    /\ connected' = success
                    /\ stepLog' = reconnect(success) \o sendConfig(success)
                    /\ hist' = Carry(hist)
                    /\ UNCHANGED configLoop
             ELSE /\ hist' = Carry([hist EXCEPT !.upTicks = @ + 1])
                  /\ UNCHANGED connected
                  /\ IF ConfigDue(configLoop)
                     THEN /\ stepLog' = sendConfig(connected)
                          /\ configLoop' = 0
                     ELSE /\ configLoop' = configLoop + 1
                          /\ stepLog' = <<>>
     ELSE /\ stepLog' = <<>>
          /\ hist' = Carry(hist)
          /\ UNCHANGED <<lastConnectTime, connected, configLoop, tickSteps>>
  /\ UNCHANGED <<clock, now, roombaState, roombaPacket, packetLength,
                 OTAStarted, lastStateMsgTime, lastWakeupTime>>

(***************************************************************************)
(* loop(): the keep-awake pulse.                                           *)
(***************************************************************************)
WakeStep ==
  /\ pc = "wake"
  /\ pc' = After("wake")
  /\ IF now - lastWakeupTime > WakeupInterval
     THEN /\ lastWakeupTime' = now
          /\ stepLog' = keepAwake(roombaState)
          /\ tickSteps' = Append(tickSteps, "keepAwake")
     ELSE /\ stepLog' = <<>>
          /\ UNCHANGED <<lastWakeupTime, tickSteps>>
  /\ hist' = Carry(hist)
  /\ UNCHANGED <<clock, now, roombaState, roombaPacket, packetLength,
                 OTAStarted, connected, lastStateMsgTime, lastConnectTime,
                 configLoop>>

(***************************************************************************)
(* loop(): publish or re-request, then the low-power check.                *)
(***************************************************************************)
\* The publish branch without its assignment to sent.
MarkSent_Forgotten(state) == state

\* roombaState.sent = true
MarkSent(state) == [state EXCEPT !.sent = TRUE]

\* The rest of the publish branch once the status decision has left the
\* shared state `state` and the events `events`: sleepIfNecessary().
PublishTail(state, events, supply) ==
  \E mV \in supply :
    LET s == sleepIfNecessary(mV, connected) IN
    /\ roombaState' = state
    /\ stepLog' = events \o s.events
    /\ tickSteps' = Append(tickSteps, "publish")
    /\ pc' = IF s.sleep THEN "sleep" ELSE After("publish")
    /\ lastStateMsgTime' = now
    /\ UNCHANGED <<clock, now, roombaPacket, packetLength, OTAStarted,
                   connected, lastWakeupTime, lastConnectTime, configLoop>>

\* The division in sendStatus() trapped: this run of the program ends here,
\* before the sample is marked sent and before sleepIfNecessary().
SendStatusFault ==
  /\ pc' = "fault"
  /\ stepLog' = << <<"sendStatus", "fault">> >>
  /\ tickSteps' = Append(tickSteps, "publish")
  /\ lastStateMsgTime' = now
  /\ hist' = Carry(hist)
  /\ UNCHANGED <<clock, now, roombaState, roombaPacket, packetLength,
                 OTAStarted, connected, lastWakeupTime, lastConnectTime,
                 configLoop>>

PublishStepOn(supply) ==
  /\ pc = "publish"
  /\ IF now - lastStateMsgTime > StateMsgInterval
     THEN IF StaleOrSent(roombaState, now)
          THEN /\ PublishTail(roombaState, << <<"roomba", "stream">> >>, supply)
               /\ hist' = Carry(hist)
          ELSE \E o \in SendStatusOutcomes(roombaState, connected) :
                 IF o = "fault"
                 THEN SendStatusFault
                 ELSE /\ PublishTail(MarkSent(roombaState),
                                     << <<"sendStatus", o>> >>, supply)
                      /\ hist' =
                           Carry([hist EXCEPT !.pubsSinceDecode = @ + 1])
     ELSE /\ pc' = After("publish")
          /\ stepLog' = <<>>
          /\ hist' = Carry(hist)
          /\ UNCHANGED <<clock, now, roombaState, roombaPacket, packetLength,
                         OTAStarted, connected, lastStateMsgTime,
                         lastWakeupTime, lastConnectTime, configLoop,
                         tickSteps>>

(***************************************************************************)
(* loop(): readSensorPacket().                                             *)
(***************************************************************************)
ReadStepOn(packets) ==
  /\ pc = "read"
  /\ pc' = After("read")
  /\ tickSteps' = Append(tickSteps, "read")
  /\ \/ /\ stepLog' = << <<"pollSensors", "nothing">> >>
        /\ hist' = Carry(hist)
        /\ UNCHANGED <<roombaState, roombaPacket, packetLength>>
     \/ \E p \in packets :
          LET buffer == Overlay(roombaPacket, p)
              r == parseRoombaStateFromStreamPacket(buffer, Len(p), ZeroState,
                                                    clock)
          IN
          /\ roombaPacket' = buffer
          /\ packetLength' = Len(p)
          /\ roombaState' = readSensorPacket(roombaState, buffer, Len(p), clock)
          /\ stepLog' =
               << <<"pollSensors", "packet">>,
                  <<"parse", IF r.ok THEN "ok" ELSE "failed">> >>
          /\ hist' = Carry(IF r.ok
                           THEN [hist EXCEPT !.pubsSinceDecode = 0,
                                             !.cmdSetCleaning = FALSE]
                           ELSE hist)
  /\ UNCHANGED <<clock, now, OTAStarted, connected, lastStateMsgTime,
                 lastWakeupTime, lastConnectTime, configLoop>>

(***************************************************************************)
(* loop(): mqttClient.loop(), which hands at most one inbound message to   *)
(* mqttCallback.                                                           *)
(***************************************************************************)
PumpStepOn(tokens) ==
  /\ pc = "pump"
  /\ pc' = After("pump")
  /\ \E m \in {"none"} \cup (IF connected THEN tokens ELSE {}) :
       LET c == IF m = "none" THEN [state |-> roombaState, events |-> <<>>]
                ELSE mqttCallback(m, roombaState)
       IN
       /\ roombaState' = c.state
       /\ stepLog' = c.events
       /\ tickSteps' = tickSteps \o
            (IF m = "none" THEN <<"pump">> ELSE <<"pump", "mqttCallback">>)
       /\ hist' = Carry([hist EXCEPT !.cmdSetCleaning =
                           @ \/ (m # "none" /\ SetsCleaning(m))])
  /\ UNCHANGED <<clock, now, roombaPacket, packetLength, OTAStarted,
                 connected, lastStateMsgTime, lastWakeupTime, lastConnectTime,
                 configLoop>>

(***************************************************************************)
(* The scheduler model: the three timers over a minute, few inputs.        *)
(***************************************************************************)
Setup == SetupOn(SupplyMilliVolts)
LoopStart == LoopStartOn(TimeSteps, MaxClock, SchedDebugTokens, BOOLEAN)
PublishStep == PublishStepOn(SupplyMilliVolts)
ReadStep == ReadStepOn(SchedPackets)
PumpStep == PumpStepOn(SchedTokens)

Next ==
  \/ Setup
  \/ LoopStart
  \/ ConnectStep
  \/ WakeStep
  \/ PublishStep
  \/ ReadStep
  \/ PumpStep

Spec == Init /\ [][Next]_vars

(***************************************************************************)
(* The command/decoder model: a few passes, every token and every packet.    *)
(***************************************************************************)
LoopStartCommands ==
  LoopStartOn(CommandTimeSteps, MaxCommandClock, DebugTokens, BOOLEAN)
ReadStepCommands == ReadStepOn(Packets)
PumpStepCommands == PumpStepOn(Tokens)

NextCommands ==
  \/ Setup
  \/ LoopStartCommands
  \/ ConnectStep
  \/ WakeStep
  \/ PublishStep
  \/ ReadStepCommands
  \/ PumpStepCommands

SpecCommands == Init /\ [][NextCommands]_vars

(***************************************************************************)
(* The long-horizon model: one pass every 30.001 s, no commands, no OTA,   *)
(* supply voltage good; long enough for the 20-pass descriptor cycle.      *)
(***************************************************************************)
SetupAnnounce == SetupOn({LowVoltage})
LoopStartAnnounce == LoopStartOn(AnnounceTimeSteps, MaxAnnounceClock, {}, {FALSE})
PublishStepAnnounce == PublishStepOn({LowVoltage})
ReadStepAnnounce == ReadStepOn(AnnouncePackets)
PumpStepAnnounce == PumpStepOn({})

NextAnnounce ==
  \/ SetupAnnounce
  \/ LoopStartAnnounce
  \/ ConnectStep
  \/ WakeStep
  \/ PublishStepAnnounce
  \/ ReadStepAnnounce
  \/ PumpStepAnnounce

SpecAnnounce == Init /\ [][NextAnnounce]_vars

(***************************************************************************)
(* The decoder model: one pass of loop() whose read statement receives any *)
(* packet of one or two documented readings, value bytes from ByteSamples. *)
(***************************************************************************)
ByteSamples == {0, 1, 127, 128, 255}

\* The stream IDs with a two-byte value, and the one with a one-byte value.
WordSensors ==
  {SensorDistance, SensorVoltage, SensorCurrent, SensorBatteryCharge,
   SensorBatteryCapacity}

\* One reading as it stands in a stream packet: ID, then its value bytes.
Readings ==
  {<<id, hi, lo>> : id \in WordSensors, hi \in ByteSamples, lo \in ByteSamples}
    \cup {<<SensorChargingState, b>> : b \in ByteSamples}

DecodePackets == Readings \cup {a \o b : a \in Readings, b \in Readings}

LoopStartDecode == LoopStartOn(CommandTimeSteps, MaxDecodeClock, {}, {FALSE})
ReadStepDecode == ReadStepOn(DecodePackets)
PumpStepDecode == PumpStepOn({})

NextDecode ==
  \/ SetupAnnounce
  \/ LoopStartDecode
  \/ ConnectStep
  \/ WakeStep
  \/ PublishStepAnnounce
  \/ ReadStepDecode
  \/ PumpStepDecode

SpecDecode == Init /\ [][NextDecode]_vars

(***************************************************************************)
(* Properties.                                                             *)
(***************************************************************************)
\* The last statement was readSensorPacket() and pollSensors handed it a
\* packet (read in the state after the step).
ReceivedPacket ==
  /\ Len(stepLog) >= 1
  /\ stepLog[1] = <<"pollSensors", "packet">>

\* The decoder's verdict on the buffer as it stands.
BufferDecodes ==
  parseRoombaStateFromStreamPacket(roombaPacket, packetLength, ZeroState,
                                   clock).ok

\* The last statement was a readSensorPacket() whose decode succeeded.
DecodedNow == ReceivedPacket /\ stepLog[2] = <<"parse", "ok">>

\* C1: when the decoder meets an unrecognized packet ID, readSensorPacket
\* leaves every field of the shared roombaState as it was: nothing decoded
\* before the unknown ID becomes visible.
C1_FailedDecodeKeepsState ==
  [][(pc = "read" /\ ReceivedPacket' /\ ~BufferDecodes')
       => roombaState' = roombaState]_vars

\* A packet that starts with a current reading and then holds an unknown ID
\* was read while the shared state held an older, docked, sample.
C1_Witness ==
  /\ pc = "pump"
  /\ ReceivedPacket
  /\ ~BufferDecodes
  /\ roombaPacket[1] = SensorCurrent
  /\ roombaState.timestamp > 0
  /\ roombaState.timestamp < clock
  /\ roombaState.current = -49
  /\ roombaState.docked

\* C2 as claimed: cleaning and docked are never both true.
C2_NeverBoth == ~(roombaState.cleaning /\ roombaState.docked)

\* C2 amended: cleaning and docked are both true only when a command that
\* sets cleaning (turn_on, clean_spot, return_to_base) has run since the
\* last successful decode; a successful decode never leaves both true.
C2_BothOnlyAfterCommand ==
  (roombaState.cleaning /\ roombaState.docked) => hist.cmdSetCleaning

\* A command has set cleaning on a sample decoded as docked.
C2_Witness ==
  /\ roombaState.cleaning
  /\ roombaState.docked
  /\ roombaState.current = -49
  /\ hist.cmdSetCleaning

\* C3: between two calls of sendStatus there is always a newer successful
\* decode: a sample, once marked sent, is not handed to sendStatus again,
\* however old it gets.
C3_OnePublishPerSample == hist.pubsSinceDecode <= 1

\* A publish pass has found the sample both sent and older than the
\* staleness window, and has re-requested the stream.
C3_Witness ==
  /\ pc = "read"
  /\ Len(stepLog) >= 1
  /\ stepLog[1] = <<"roomba", "stream">>
  /\ roombaState.sent
  /\ hist.pubsSinceDecode = 1
  /\ now - roombaState.timestamp > 30000

\* The publish interval has elapsed when loop() reaches its publish
\* statement.
PublishTick == pc = "publish" /\ now - lastStateMsgTime > 10000

\* The sample is older than the staleness window, or marked sent.
SampleStaleOrSent == now - roombaState.timestamp > 30000 \/ roombaState.sent

\* C4 as claimed: a publish pass that finds the link down and the sample
\* fresh and unsent leaves the sample unsent, to be retried.
C4_LinkDownStaysUnsent ==
  [][(PublishTick /\ ~connected /\ ~SampleStaleOrSent)
       => ~roombaState'.sent]_vars

\* Some event of the last statement is on channel `kind`.
Did(kind) == \E i \in 1..Len(stepLog) : stepLog[i][1] = kind

\* C5 as claimed: at a publish pass, a stale or sent sample is not published
\* and the stream is re-requested; otherwise status is published and the
\* sample is marked sent.
C5_PublishOrRequest ==
  [][PublishTick =>
       IF SampleStaleOrSent
       THEN /\ ~(<<"sendStatus", "published">> \in {stepLog'[i] : i \in 1..Len(stepLog')})
            /\ stepLog'[1] = <<"roomba", "stream">>
       ELSE /\ stepLog'[1] = <<"sendStatus", "published">>
            /\ roombaState'.sent]_vars

\* C5 amended: at a publish pass, a stale or sent sample is not handed to
\* sendStatus and the stream is re-requested; otherwise sendStatus is called
\* and no stream is requested: with the link down it publishes nothing, with
\* the link up it publishes, unless capacity is 0 and the division traps;
\* when it returns, the sample is marked sent, published or not.
C5_CallOrRequest ==
  [][PublishTick =>
       IF SampleStaleOrSent
       THEN /\ ~Did("sendStatus")'
            /\ stepLog'[1] = <<"roomba", "stream">>
            /\ roombaState' = roombaState
       ELSE /\ stepLog'[1][1] = "sendStatus"
            /\ ~(<<"roomba", "stream">> \in {stepLog'[i] : i \in 1..Len(stepLog')})
            /\ (stepLog'[1][2] = "skipped") = ~connected
            /\ stepLog'[1][2] = "fault" => roombaState.capacity = 0
            /\ stepLog'[1][2] # "fault"
                 => roombaState' = [roombaState EXCEPT !.sent = TRUE]]_vars

\* A publish pass with the link down: nothing published, sample marked sent.
C5_Witness ==
  /\ pc = "read"
  /\ Len(stepLog) >= 1
  /\ stepLog[1] = <<"sendStatus", "skipped">>
  /\ ~connected
  /\ roombaState.sent
  /\ roombaState.timestamp > 0

\* The wake sequence: BRC pulled low, BRC released, Start opcode.
WakeSequence == << <<"brc", "low">>, <<"brc", "input">>, <<"serial", "128">> >>

\* The positions of the last statement's log where performCommand is entered.
CommandCalls == {i \in 1..Len(stepLog) : stepLog[i][1] = "performCommand"}

\* The position where the call of performCommand entered at i returns.
ReturnOf(i) ==
  CHOOSE j \in (i + 1)..Len(stepLog) :
    /\ stepLog[j][1] = "return"
    /\ \A k \in (i + 1)..(j - 1) : stepLog[k][1] # "return"

\* C6: every call of performCommand, for a recognized token or not, starts
\* with the wake sequence; its mapped device actions and its return value
\* come only after it.
C6_WakeFirst ==
  \A i \in CommandCalls :
    /\ i + 3 < ReturnOf(i)
    /\ SubSeq(stepLog, i + 1, i + 3) = WakeSequence
    /\ \A k \in (i + 1)..ReturnOf(i) :
         stepLog[k][1] \in {"roomba", "return"} => k > i + 3

\* An unrecognized token was rejected, after the wake sequence.
C6_Witness ==
  /\ pc = "idle"
  /\ Len(stepLog) = 6
  /\ stepLog[2] = <<"performCommand", "bogus">>
  /\ SubSeq(stepLog, 3, 5) = WakeSequence
  /\ stepLog[6] = <<"return", "false">>

\* C7 as claimed: for a token outside the vocabulary performCommand returns
\* false, writes nothing to the device and leaves the shared state unchanged.
C7_NothingWritten ==
  [][\A i \in CommandCalls' :
       stepLog'[i][2] \notin Vocabulary =>
         /\ stepLog'[ReturnOf(i)'] = <<"return", "false">>
         /\ \A k \in (i + 1)..(ReturnOf(i)' - 1) :
              stepLog'[k][1] \notin {"serial", "roomba"}
         /\ roombaState' = roombaState]_vars

\* C7 amended: for a token outside the vocabulary performCommand returns
\* false, issues no device action besides the wake sequence (which writes
\* the Start opcode 128) and leaves the shared state unchanged.
C7_OnlyWake ==
  [][\A i \in CommandCalls' :
       stepLog'[i][2] \notin Vocabulary =>
         /\ stepLog'[ReturnOf(i)'] = <<"return", "false">>
         /\ SubSeq(stepLog', i + 1, ReturnOf(i)' - 1) = WakeSequence
         /\ roombaState' = roombaState]_vars

\* An unrecognized token arrived on the bus while a decoded sample was held.
C7_Witness ==
  /\ pc = "idle"
  /\ Len(stepLog) = 6
  /\ stepLog[1] = <<"mqttCallback", "bogus">>
  /\ stepLog[6] = <<"return", "false">>
  /\ roombaState.timestamp > 0
  /\ roombaState.cleaning

\* C8: after a successful decode, current < -400 gives cleaning and not
\* docked, current > -50 gives docked and not cleaning, and every value from
\* -400 to -50 inclusive gives neither.
C8_Thresholds ==
  (pc = "pump" /\ DecodedNow) =>
    /\ roombaState.current < -400
         => (roombaState.cleaning /\ ~roombaState.docked)
    /\ roombaState.current > -50
         => (roombaState.docked /\ ~roombaState.cleaning)
    /\ (roombaState.current >= -400 /\ roombaState.current <= -50)
         => (~roombaState.cleaning /\ ~roombaState.docked)

\* A sample with current exactly -400 was decoded.
C8_Witness ==
  /\ pc = "pump"
  /\ DecodedNow
  /\ roombaState.current = -400
  /\ ~roombaState.cleaning
  /\ ~roombaState.docked

\* The place of an operation in the order of loop().
StepRank(op) ==
  CASE op = "debugCallback" -> 0
    [] op = "connect" -> 1
    [] op = "keepAwake" -> 2
    [] op = "publish" -> 3
    [] op = "read" -> 4
    [] op = "pump" -> 5
    [] op = "mqttCallback" -> 6

\* C9: the operations of one pass run in the order reconnect/descriptor
\* check, keep-awake pulse, publish-or-re-request, packet read, message-bus
\* pump, none before an earlier one; and mqttCallback runs a command only
\* inside the pump.  The low-power check closes the publish step.
C9_StepOrder ==
  /\ \A i, j \in 1..Len(tickSteps) :
       i < j => StepRank(tickSteps[i]) < StepRank(tickSteps[j])
  /\ (Did("sendStatus") \/ Did("sleepIfNecessary") \/ Did("deepSleep"))
       => \/ pc \in {"idle", "sleep"} /\ tickSteps = <<>>
          \/ pc = "fault" /\ tickSteps[Len(tickSteps)] = "publish"
               /\ stepLog = << <<"sendStatus", "fault">> >>
          \/ pc \in {"read", "sleep"}
               /\ tickSteps[Len(tickSteps)] = "publish"
               /\ stepLog[1][1] \in {"sendStatus", "roomba"}
               /\ stepLog[2][1] = "sleepIfNecessary"
  /\ Did("reconnect") \/ Did("sendConfig")
       => pc = "wake" /\ tickSteps[Len(tickSteps)] = "connect"
  /\ Did("keepAwake")
       => pc = "publish" /\ tickSteps[Len(tickSteps)] = "keepAwake"
  /\ Did("pollSensors")
       => pc = "pump" /\ tickSteps[Len(tickSteps)] = "read"
  /\ \A i \in 1..Len(tickSteps) :
       tickSteps[i] = "mqttCallback" => (i > 1 /\ tickSteps[i - 1] = "pump")
  /\ Did("mqttCallback") =>
       (pc = "idle" /\ tickSteps[Len(tickSteps)] = "mqttCallback")

\* A pass in which all five steps ran and the pump delivered a command.
C9_Witness ==
  /\ pc = "idle"
  /\ tickSteps =
       <<"connect", "keepAwake", "publish", "read", "pump", "mqttCallback">>

\* The reconnect interval has elapsed when loop() reaches its reconnect
\* statement.
ConnectTick == pc = "connect" /\ now - lastConnectTime > 30000

\* C10: at a reconnect-interval pass with the link down, a reconnect and then
\* the descriptor publish are attempted; with the link up, the descriptor is
\* published on every 20th such pass and on no other; and it is never
\* published while the link is down.
C10_DescriptorCycle ==
  [][ConnectTick =>
       /\ IF ~connected
          THEN /\ Len(stepLog') = 2
               /\ stepLog'[1][1] = "reconnect"
               /\ stepLog'[2][1] = "sendConfig"
          ELSE /\ ~Did("reconnect")'
               /\ (stepLog' = << <<"sendConfig", "published">> >>)
                    = (hist'.upTicks % 20 = 0)
               /\ (stepLog' = <<>>) = (hist'.upTicks % 20 # 0)
       /\ (<<"sendConfig", "published">> \in
             {stepLog'[i] : i \in 1..Len(stepLog')}) => connected']_vars

\* The 20th link-up pass published the descriptor.
C10_Witness ==
  /\ pc = "wake"
  /\ hist.upTicks = 20
  /\ stepLog = << <<"sendConfig", "published">> >>
  /\ configLoop = 0

\* The last statement ran sleepIfNecessary() on a supply reading below
\* `limit` millivolts.
SampledBelow(limit) ==
  \E i \in 1..Len(stepLog), mV \in SupplyMilliVolts :
    /\ stepLog[i] = <<"sleepIfNecessary", ToString(mV)>>
    /\ mV < limit

C12_SingleWriter ==
  [][roombaState' # roombaState => (pc = "read" /\ DecodedNow')]_vars

\* C12 amended: a successful decode is the only whole-value replacement of
\* the shared state, and what it writes does not depend on the old value;
\* besides it, a command writes the single field cleaning (turn_on,
\* clean_spot and return_to_base set it, turn_off clears it) and the publish
\* branch writes the single field sent; no other statement writes a field.
C12_WritersAndFields ==
  [][roombaState' # roombaState =>
       \/ /\ pc = "read"
          /\ DecodedNow'
          /\ roombaState' =
               readSensorPacket(ZeroState, roombaPacket', packetLength', clock')
       \/ /\ pc \in {"idle", "pump"}
          /\ LastCommand(stepLog') \in
               {"turn_on", "clean_spot", "return_to_base", "turn_off"}
          /\ roombaState' =
               [roombaState EXCEPT
                  !.cleaning = (LastCommand(stepLog') # "turn_off")]
       \/ /\ pc = "publish"
          /\ stepLog'[1][1] = "sendStatus"
          /\ roombaState' = [roombaState EXCEPT !.sent = TRUE]]_vars

\* A turn_off from the bus has cleared cleaning on a sample that was decoded
\* as cleaning and has been marked sent by the publish branch.
C12_Witness ==
  /\ pc = "idle"
  /\ Len(stepLog) >= 1
  /\ stepLog[1] = <<"mqttCallback", "turn_off">>
  /\ roombaState.current < -400
  /\ ~roombaState.cleaning
  /\ roombaState.sent
  /\ roombaState.timestamp > 0

\* The device actions in the log `log`: wake line, serial writes, library
\* calls.
DeviceActions(log) ==
  SelectSeq(log, LAMBDA e : e[1] \in {"brc", "serial", "roomba"})

\* C13: when turn_on is executed and turn_off is executed in the very next
\* statement, with no other device action between them, cleaning is false
\* afterwards and the device has seen wake sequence, cover, wake sequence,
\* power, in that order.
C13_OnThenOff ==
  [][(/\ LastCommand(stepLog) = "turn_on"
      /\ LastCommand(stepLog') = "turn_off"
      /\ ~Did("onOTAStart")')
       => /\ ~roombaState'.cleaning
          /\ DeviceActions(stepLog) \o DeviceActions(stepLog') =
               WakeSequence \o << <<"roomba", "cover">> >> \o
               WakeSequence \o << <<"roomba", "power">> >>]_vars

\* A turn_on from the bus closed one pass and a turn_off from the console
\* opened the next, on a sample decoded as docked.
C13_Witness ==
  /\ pc = "connect"
  /\ hist.prevCmd = "turn_on"
  /\ LastCommand(stepLog) = "turn_off"
  /\ stepLog[1] = <<"debugCallback", "turn_off">>
  /\ ~roombaState.cleaning
  /\ roombaState.docked

\* The positions of the received packet where a reading starts, from
\* position i on, for a packet of documented readings.
RECURSIVE ReadingStarts(_)
ReadingStarts(i) ==
  IF i >= packetLength THEN {}
  ELSE {i} \cup
       ReadingStarts(i + (IF roombaPacket[i + 1] = 21 THEN 2 ELSE 3))

\* The value the reading at position i encodes, by the type of its sensor:
\* 19, 23 and 25 big-endian two's-complement, 22 and 26 big-endian unsigned,
\* 21 an unsigned byte.
EncodedValue(i) ==
  LET id == roombaPacket[i + 1]
      hi == roombaPacket[i + 2]
      lo == roombaPacket[i + 3]
  IN CASE id \in {19, 23, 25} ->
            IF hi >= 128 THEN hi * 256 + lo - 65536 ELSE hi * 256 + lo
       [] id \in {22, 26} -> hi * 256 + lo
       [] id = 21 -> hi

\* The field of the shared state that sensor `id` is decoded into.
FieldOf(id) ==
  CASE id = 19 -> roombaState.distance
    [] id = 21 -> roombaState.chargingState
    [] id = 22 -> roombaState.voltage
    [] id = 23 -> roombaState.current
    [] id = 25 -> roombaState.charge
    [] id = 26 -> roombaState.capacity

\* The value bytes that encode field value v for sensor `id`.
EncodeField(id, v) ==
  IF id = 21 THEN <<v % 256>>
  ELSE <<(v % 65536) \div 256, v % 256>>

\* C14: a packet of documented readings (19, 21, 22, 23, 25, 26), each with
\* its full value bytes, decodes successfully; every field holds the value
\* that the last reading of its sensor encodes, by the sensor's type; and
\* encoding the field again gives that reading's value bytes.
C14_RoundTrip ==
  (pc = "pump" /\ ReceivedPacket) =>
    /\ DecodedNow
    /\ \A i \in ReadingStarts(0) :
         LET id == roombaPacket[i + 1] IN
         (\A j \in ReadingStarts(0) : roombaPacket[j + 1] = id => j <= i) =>
           /\ FieldOf(id) = EncodedValue(i)
           /\ EncodeField(id, FieldOf(id)) =
                SubSeq(roombaPacket, i + 2, i + (IF id = 21 THEN 2 ELSE 3))

\* A current reading of bytes 0xFF 0xFF followed by a capacity reading of
\* bytes 0x80 0x00 was decoded.
C14_Witness ==
  /\ pc = "pump"
  /\ DecodedNow
  /\ SubSeq(roombaPacket, 1, 6) = <<23, 255, 255, 26, 128, 0>>
  /\ packetLength = 6
  /\ roombaState.current = -1
  /\ roombaState.capacity = 32768

\* C15: start, pause, stop and locate return true and leave every field of
\* the shared state as it was; start and pause issue the wake sequence and
\* one cover action; stop issues the wake sequence and then one cover
\* action if cleaning was true when it was handled, nothing more otherwise.
C15_ToggleCommands ==
  [][\A i \in CommandCalls' :
       LET cmd == stepLog'[i][2]
           acts == SubSeq(stepLog', i + 1, ReturnOf(i)' - 1)
           cover == << <<"roomba", "cover">> >>
       IN cmd \in {"start", "pause", "stop", "locate"} =>
            /\ roombaState' = roombaState
            /\ stepLog'[ReturnOf(i)'] = <<"return", "true">>
            /\ cmd \in {"start", "pause"} => acts = WakeSequence \o cover
            /\ cmd = "stop" =>
                 acts = IF roombaState.cleaning
                        THEN WakeSequence \o cover ELSE WakeSequence]_vars

\* A stop from the bus found the sample decoded as not cleaning and issued
\* nothing besides the wake sequence.
C15_Witness ==
  /\ pc = "idle"
  /\ stepLog = << <<"mqttCallback", "stop">>, <<"performCommand", "stop">> >>
                 \o WakeSequence \o << <<"return", "true">> >>
  /\ roombaState.timestamp > 0
  /\ ~roombaState.cleaning
  /\ roombaState.docked

\* C16: right after a successful decode sent is false and timestamp is the
\* uptime of that decode; no other statement changes timestamp, and no other
\* statement takes sent from true to false.
C16_FreshSample ==
  [][/\ (pc = "read" /\ DecodedNow') =>
          (~roombaState'.sent /\ roombaState'.timestamp = clock')
     /\ roombaState'.timestamp # roombaState.timestamp =>
          (pc = "read" /\ DecodedNow')
     /\ (roombaState.sent /\ ~roombaState'.sent) =>
          (pc = "read" /\ DecodedNow')]_vars

\* A later pass ran its publish statement and then decoded a new sample.
C16_Witness ==
  /\ pc = "pump"
  /\ DecodedNow
  /\ clock > 20000
  /\ roombaState.timestamp = clock
  /\ ~roombaState.sent
  /\ hist.pubsSinceDecode = 0
  /\ \E i \in 1..Len(tickSteps) : tickSteps[i] = "publish"

\* The last statement was a sendStatus() that got past the link test and
\* computed charge * 100 / capacity.
Divided ==
  /\ Len(stepLog) >= 1
  /\ stepLog[1] \in {<<"sendStatus", "published">>, <<"sendStatus", "fault">>}

\* C17 as claimed: the zero-valued startup state, fresh and unsent at a
\* publish pass before any successful decode, is published with the link
\* up, so that the percentage is computed with capacity = 0.
C17_StartupStateDivides ==
  [][(PublishTick /\ roombaState.timestamp = 0 /\ ~SampleStaleOrSent)
       => Divided']_vars

\* C17 amended: sendStatus divides by capacity = 0 only for a sample from a
\* successful decode, and a successful decode of a packet that holds no
\* byte 26 leaves capacity = 0; the zero-valued startup state, when a publish
\* pass finds it fresh and unsent, meets a link that is still down, is not
\* published and is marked sent.
C17_DividesAfterDecodeOnly ==
  [][/\ (Divided' /\ roombaState.capacity = 0) =>
          (connected /\ roombaState.timestamp > 0)
     /\ (pc = "read" /\ DecodedNow'
           /\ \A k \in 1..packetLength' : roombaPacket'[k] # 26)
          => roombaState'.capacity = 0
     /\ (PublishTick /\ roombaState.timestamp = 0 /\ ~SampleStaleOrSent)
          => /\ ~connected
             /\ roombaState.capacity = 0
             /\ stepLog'[1] = <<"sendStatus", "skipped">>
             /\ roombaState'.sent]_vars

\* With the link up, sendStatus was called on a decoded sample whose packet
\* held no capacity reading, and published.
C17_Witness ==
  /\ pc = "read"
  /\ Len(stepLog) >= 1
  /\ stepLog[1] = <<"sendStatus", "published">>
  /\ connected
  /\ roombaState.capacity = 0
  /\ roombaState.timestamp > 0
  /\ \A k \in 1..packetLength : roombaPacket[k] # 26

\* C18 as claimed: decoding a received packet reads only positions of the
\* buffer below the received length.
C18_ReadsBelowLength ==
  (pc = "pump" /\ ReceivedPacket) =>
    \A k \in ReadPositions(roombaPacket, packetLength, 0) : k < packetLength

\* The received packet on its own: the buffer with every byte behind the
\* received length blanked.
ReceivedBytesOnly ==
  [k \in 1..BufView |-> IF k <= packetLength THEN roombaPacket[k] ELSE 0]

\* C19 as claimed: after a successful decode the whole shared state is what
\* the received packet and the uptime determine: the readings of the packet,
\* zero for every sensor the packet does not hold, cleaning and docked from
\* the decoded current; nothing of an earlier packet or command survives.
C19_FunctionOfPacket ==
  (pc = "pump" /\ DecodedNow) =>
    roombaState =
      Estimate(parseRoombaStateFromStreamPacket(
                 ReceivedBytesOnly, packetLength, ZeroState, clock).state)

\* C20 as claimed: once the OTA session has started, no pass runs a command
\* or any scheduler statement, and the shared state and the timers stay as
\* they are.
C20_NothingRuns ==
  [][OTAStarted =>
       /\ pc' = "idle"
       /\ ~Did("performCommand")'
       /\ roombaState' = roombaState
       /\ UNCHANGED <<lastStateMsgTime, lastWakeupTime, lastConnectTime>>]_vars

\* C20 amended: once the OTA session has started it stays started and every
\* pass returns before the scheduler: no reconnect, descriptor publish,
\* keep-awake pulse, status publish, low-power check, packet read or bus
\* pump runs, and the three timers and configLoop stay as they are; only a
\* console command still runs, at the top of the pass, and the shared state
\* changes only by the cleaning field such a command writes.
C20_OnlyConsoleRuns ==
  [][OTAStarted =>
       /\ OTAStarted'
       /\ pc = "idle" /\ pc' = "idle"
       /\ tickSteps' \in {<<>>, <<"debugCallback">>}
       /\ stepLog' = <<>> \/ stepLog'[1][1] = "debugCallback"
       /\ \A op \in {"reconnect", "sendConfig", "keepAwake", "sendStatus",
                      "sleepIfNecessary", "pollSensors", "mqttCallback"} :
            ~Did(op)'
       /\ UNCHANGED <<lastStateMsgTime, lastWakeupTime, lastConnectTime,
                      configLoop, now, roombaPacket, packetLength>>
       /\ roombaState' # roombaState =>
            /\ Did("debugCallback")'
            /\ roombaState' =
                 [roombaState EXCEPT !.cleaning = roombaState'.cleaning]]_vars

\* At least two passes after the last one that reached the scheduler, with
\* the OTA session running, a console turn_on has set cleaning.
C20_Witness ==
  /\ OTAStarted
  /\ pc = "idle"
  /\ clock - now > 30001
  /\ ~Did("onOTAStart")
  /\ Len(stepLog) >= 1
  /\ stepLog[1] = <<"debugCallback", "turn_on">>
  /\ roombaState.cleaning
  /\ hist.prevCmd = "none"

====
